---- MODULE Spec2Model ----
(***************************************************************************)
(* Mycelium Desktop (src/desktop/src-tauri/src/main.rs): the Tauri entry   *)
(* point that spawns the Python backend as a sidecar, relays its output,   *)
(* polls its health endpoint and kills it when a window is closed.         *)
(*                                                                         *)
(* Threads of control:                                                     *)
(*   - the startup task (main.rs 26-68), which runs wait_for_backend       *)
(*     (main.rs 94-112) inline;                                            *)
(*   - the output relay task (main.rs 43-63);                              *)
(*   - one on_window_event invocation per close-requested event            *)
(*     (main.rs 72-88);                                                    *)
(*   - the UI invoking the get_backend_url command (main.rs 11-14);        *)
(*   - the environment: the child process, the sidecar's event source and  *)
(*     the health endpoint.                                                *)
(***************************************************************************)
EXTENDS Integers, Sequences, FiniteSets

\* ---------------------------------------------------------------- bounds
\* number of close-requested events the host may deliver in one run
MaxClose == 2
\* number of events the sidecar's event source may deliver in one run
MaxEvents == 3

\* ------------------------------------------------------ program constants
\* for i in 0..30
MaxAttempts == 30
\* Duration::from_millis(500)
SleepMs == 500
\* if i % 5 == 0
LogEvery == 5

Handlers == 1..MaxClose

\* payloads the child may write: a valid one-byte line and an invalid one
Lines == {<<97>>, <<255>>}

\* tauri_plugin_shell::process::CommandEvent; "Other" is the `_` arm
LineEvents == {[kind |-> k, line |-> l] : k \in {"Stdout", "Stderr"}, l \in Lines}
PlainEvents == {[kind |-> k, line |-> <<>>] : k \in {"Error", "Terminated", "Other"}}
CommandEvent == LineEvents \cup PlainEvents

\* outcomes of client.get(health_url).send().await
Outcomes == {"2xx", "non2xx", "transport"}

\* String::from_utf8_lossy on the byte strings of Lines: a byte that is not
\* valid UTF-8 on its own becomes U+FFFD
from_utf8_lossy(bytes) ==
    [j \in 1..Len(bytes) |-> IF bytes[j] < 128 THEN bytes[j] ELSE 65533]

VARIABLES
    app,        \* "running" | "aborted": the host process and its event loop
    startup,    \* position of the startup task
    child,      \* "none" | "alive" | "exited": the sidecar process
    managed,    \* BackendProcess has been registered with app_handle.manage
    slot,       \* the Mutex<Option<CommandChild>>: "None" | "Some"
    mutex,      \* 0 when free, else the handler holding the lock
    hpc,        \* position of each on_window_event invocation
    hchild,     \* handler-local `child` moved out of the slot by take()
    kills,      \* number of child.kill() calls made
    killLog,    \* results of the kill calls, as logged, in order
    setCount,   \* number of times a handle was stored in the slot
    takeCount,  \* number of times a handle was moved out of the slot
    i,          \* loop index of wait_for_backend
    attempts,   \* GET requests sent
    sleeps,     \* completed sleeps
    slept,      \* milliseconds slept in total
    failures,   \* attempts that did not yield a 2xx response
    probeOk,    \* some attempt received a 2xx response
    progress,   \* attempt numbers printed by the "Waiting for backend" line
    warnings,   \* number of timeout warnings printed
    readyLogs,  \* number of "Backend is ready!" lines printed
    delivered,  \* events the source has put on the channel, in order
    closed,     \* the sending side of the channel has been dropped
    relay,      \* "idle" | "running" | "ended"
    rxPos,      \* number of events the relay has received
    relayOut,   \* lines the relay printed with println!
    relayErr,   \* lines the relay printed with eprintln!
    lastUrl     \* what the last get_backend_url call returned, "none" before any

shutdownVars == <<managed, slot, mutex, hpc, hchild, kills, killLog, setCount, takeCount>>
probeVars == <<i, attempts, sleeps, slept, failures, probeOk, progress, warnings, readyLogs>>
relayVars == <<relay, rxPos, relayOut, relayErr>>
sourceVars == <<delivered, closed>>
vars == <<app, startup, child, shutdownVars, probeVars, relayVars, sourceVars, lastUrl>>

Init ==
    /\ app = "running"
    /\ startup = "start"
    /\ child = "none"
    /\ managed = FALSE
    /\ slot = "None"
    /\ mutex = 0
    /\ hpc = [h \in Handlers |-> "idle"]
    /\ hchild = [h \in Handlers |-> FALSE]
    /\ kills = 0
    /\ killLog = <<>>
    /\ setCount = 0
    /\ takeCount = 0
    /\ i = 0
    /\ attempts = 0
    /\ sleeps = 0
    /\ slept = 0
    /\ failures = 0
    /\ probeOk = FALSE
    /\ progress = <<>>
    /\ warnings = 0
    /\ readyLogs = 0
    /\ delivered = <<>>
    /\ closed = FALSE
    /\ relay = "idle"
    /\ rxPos = 0
    /\ relayOut = <<>>
    /\ relayErr = <<>>
    /\ lastUrl = "none"

\* ------------------------------------------------------------ startup task

\* .expect(..) inside tauri::async_runtime::spawn: the panic unwinds the task
\* only, or aborts the process when the build sets panic = "abort"
Panic ==
    /\ startup' = "panicked"
    /\ app' \in {"running", "aborted"}

\* shell.sidecar("mycelium-backend").expect("Failed to create sidecar command")
CreateCommand ==
    /\ app = "running"
    /\ startup = "start"
    /\ \/ startup' = "command" /\ app' = app
       \/ Panic
    /\ UNCHANGED <<child, shutdownVars, probeVars, relayVars, sourceVars>>
    /\ UNCHANGED lastUrl

\* sidecar_command.spawn().expect("Failed to spawn backend sidecar")
SpawnChild ==
    /\ app = "running"
    /\ startup = "command"
    /\ \/ startup' = "spawned" /\ child' = "alive" /\ app' = app
       \/ Panic /\ child' = child
    /\ UNCHANGED <<shutdownVars, probeVars, relayVars, sourceVars>>
    /\ UNCHANGED lastUrl

\* app_handle.manage(BackendProcess(Mutex::new(Some(child))))
ManageHandle ==
    /\ app = "running"
    /\ startup = "spawned"
    /\ managed' = TRUE
    /\ slot' = "Some"
    /\ setCount' = setCount + 1
    /\ startup' = "stored"
    /\ UNCHANGED <<app, child, mutex, hpc, hchild, kills, killLog, takeCount,
                   probeVars, relayVars, sourceVars>>
    /\ UNCHANGED lastUrl

\* mutant of SpawnRelay: the relay and the probe are started right after the
\* spawn, with the manage call left for later
SpawnRelay_before_store ==
    /\ app = "running"
    /\ startup = "spawned"
    /\ relay' = "running"
    /\ startup' = "probe_get"
    /\ UNCHANGED <<app, child, shutdownVars, probeVars, rxPos, relayOut, relayErr,
                   sourceVars>>
    /\ UNCHANGED lastUrl

\* tauri::async_runtime::spawn(async move { while let Some(event) = ... })
\* followed by the call of wait_for_backend
SpawnRelay ==
    /\ app = "running"
    /\ startup = "stored"
    /\ relay' = "running"
    /\ startup' = "probe_get"
    /\ UNCHANGED <<app, child, shutdownVars, probeVars, rxPos, relayOut, relayErr,
                   sourceVars>>
    /\ UNCHANGED lastUrl

\* --------------------------------------------------------- wait_for_backend

\* wait_for_backend().await has returned: println!("Backend is ready!")
AfterWait ==
    /\ readyLogs' = readyLogs + 1
    /\ startup' = "done"

\* mutant of ProbeGet: the sleep is placed before the match, so a successful
\* attempt is followed by a sleep too
ProbeGet_sleep_first(r) ==
    /\ app = "running"
    /\ startup = "probe_get"
    /\ attempts' = attempts + 1
    /\ IF r = "2xx"
       THEN /\ probeOk' = TRUE
            /\ sleeps' = sleeps + 1
            /\ slept' = slept + SleepMs
            /\ AfterWait
            /\ UNCHANGED <<failures, progress>>
       ELSE /\ failures' = failures + 1
            /\ progress' = IF i % LogEvery = 0 THEN Append(progress, i + 1) ELSE progress
            /\ startup' = "probe_sleep"
            /\ UNCHANGED <<probeOk, readyLogs, sleeps, slept>>
    /\ UNCHANGED <<app, child, shutdownVars, i, warnings, relayVars, sourceVars>>
    /\ UNCHANGED lastUrl

\* mutant of ProbeGet: the cadence test is (i + 1) % 5 == 0, which prints at
\* attempts 5, 10, 15, ..
ProbeGet_log_multiples(r) ==
    /\ app = "running"
    /\ startup = "probe_get"
    /\ attempts' = attempts + 1
    /\ IF r = "2xx"
       THEN /\ probeOk' = TRUE
            /\ AfterWait
            /\ UNCHANGED <<failures, progress>>
       ELSE /\ failures' = failures + 1
            /\ progress' = IF (i + 1) % LogEvery = 0 THEN Append(progress, i + 1) ELSE progress
            /\ startup' = "probe_sleep"
            /\ UNCHANGED <<probeOk, readyLogs>>
    /\ UNCHANGED <<app, child, shutdownVars, i, sleeps, slept, warnings,
                   relayVars, sourceVars>>
    /\ UNCHANGED lastUrl

\* one iteration of `for i in 0..30` up to its suspension point:
\* client.get(health_url).send().await and the match on its result
ProbeGet(r) ==
    /\ app = "running"
    /\ startup = "probe_get"
    /\ attempts' = attempts + 1
    /\ IF r = "2xx"
       THEN /\ probeOk' = TRUE
            /\ AfterWait
            /\ UNCHANGED <<failures, progress>>
       ELSE /\ failures' = failures + 1
            /\ progress' = IF i % LogEvery = 0 THEN Append(progress, i + 1) ELSE progress
            /\ startup' = "probe_sleep"
            /\ UNCHANGED <<probeOk, readyLogs>>
    /\ UNCHANGED <<app, child, shutdownVars, i, sleeps, slept, warnings,
                   relayVars, sourceVars>>
    /\ UNCHANGED lastUrl

\* mutant of ProbeSleep: `for i in 0..=30`, one iteration too many
ProbeSleep_inclusive ==
    /\ app = "running"
    /\ startup = "probe_sleep"
    /\ sleeps' = sleeps + 1
    /\ slept' = slept + SleepMs
    /\ i' = i + 1
    /\ IF i + 1 <= MaxAttempts
       THEN /\ startup' = "probe_get"
            /\ UNCHANGED <<warnings, readyLogs>>
       ELSE /\ warnings' = warnings + 1
            /\ AfterWait
    /\ UNCHANGED <<app, child, shutdownVars, attempts, failures, probeOk, progress,
                   relayVars, sourceVars>>
    /\ UNCHANGED lastUrl

\* tokio::time::sleep(Duration::from_millis(500)).await completes; the loop
\* goes on, or ends with the timeout warning and the return to the caller
ProbeSleep ==
    /\ app = "running"
    /\ startup = "probe_sleep"
    /\ sleeps' = sleeps + 1
    /\ slept' = slept + SleepMs
    /\ i' = i + 1
    /\ IF i + 1 < MaxAttempts
       THEN /\ startup' = "probe_get"
            /\ UNCHANGED <<warnings, readyLogs>>
       ELSE /\ warnings' = warnings + 1
            /\ AfterWait
    /\ UNCHANGED <<app, child, shutdownVars, attempts, failures, probeOk, progress,
                   relayVars, sourceVars>>
    /\ UNCHANGED lastUrl

\* ---------------------------------------------------------- on_window_event

\* mutant of CloseRequested: window.state::<BackendProcess>() in place of
\* try_state, so the handler goes for the lock although nothing is managed
CloseRequested_state(h) ==
    /\ app = "running"
    /\ hpc[h] = "idle"
    /\ hpc' = [hpc EXCEPT ![h] = "lock"]
    /\ UNCHANGED <<app, startup, child, managed, slot, mutex, hchild, kills, killLog,
                   setCount, takeCount, probeVars, relayVars, sourceVars>>
    /\ UNCHANGED lastUrl

\* a WindowEvent::CloseRequested reaches the handler:
\* if let Some(backend) = window.try_state::<BackendProcess>()
CloseRequested(h) ==
    /\ app = "running"
    /\ hpc[h] = "idle"
    /\ hpc' = [hpc EXCEPT ![h] = IF managed THEN "lock" ELSE "done"]
    /\ UNCHANGED <<app, startup, child, managed, slot, mutex, hchild, kills, killLog,
                   setCount, takeCount, probeVars, relayVars, sourceVars>>
    /\ UNCHANGED lastUrl

\* if let Ok(mut guard) = backend.0.lock()
Lock(h) ==
    /\ app = "running"
    /\ hpc[h] = "lock"
    /\ mutex = 0
    /\ mutex' = h
    /\ hpc' = [hpc EXCEPT ![h] = "take"]
    /\ UNCHANGED <<app, startup, child, managed, slot, hchild, kills, killLog,
                   setCount, takeCount, probeVars, relayVars, sourceVars>>
    /\ UNCHANGED lastUrl

\* mutant of Take: guard.as_ref() in place of guard.take(), so the handle is
\* used but stays in the slot
Take_as_ref(h) ==
    /\ app = "running"
    /\ hpc[h] = "take"
    /\ IF slot = "Some"
       THEN /\ hchild' = [hchild EXCEPT ![h] = TRUE]
            /\ takeCount' = takeCount + 1
            /\ hpc' = [hpc EXCEPT ![h] = "kill"]
            /\ UNCHANGED <<slot, mutex>>
       ELSE /\ hpc' = [hpc EXCEPT ![h] = "done"]
            /\ mutex' = 0
            /\ UNCHANGED <<slot, hchild, takeCount>>
    /\ UNCHANGED <<app, startup, child, managed, kills, killLog, setCount,
                   probeVars, relayVars, sourceVars>>
    /\ UNCHANGED lastUrl

\* if let Some(child) = guard.take(); with None the guard goes out of scope
Take(h) ==
    /\ app = "running"
    /\ hpc[h] = "take"
    /\ IF slot = "Some"
       THEN /\ slot' = "None"
            /\ hchild' = [hchild EXCEPT ![h] = TRUE]
            /\ takeCount' = takeCount + 1
            /\ hpc' = [hpc EXCEPT ![h] = "kill"]
            /\ UNCHANGED mutex
       ELSE /\ hpc' = [hpc EXCEPT ![h] = "done"]
            /\ mutex' = 0
            /\ UNCHANGED <<slot, hchild, takeCount>>
    /\ UNCHANGED <<app, startup, child, managed, kills, killLog, setCount,
                   probeVars, relayVars, sourceVars>>
    /\ UNCHANGED lastUrl

\* mutant of Kill: a failed kill puts the handle back for a later retry
Kill_put_back(h, r) ==
    /\ app = "running"
    /\ hpc[h] = "kill"
    /\ kills' = kills + 1
    /\ killLog' = Append(killLog, r)
    /\ hchild' = [hchild EXCEPT ![h] = FALSE]
    /\ child' = IF r = "Ok" THEN "exited" ELSE child
    /\ slot' = IF r = "Ok" THEN slot ELSE "Some"
    /\ mutex' = 0
    /\ hpc' = [hpc EXCEPT ![h] = "done"]
    /\ UNCHANGED <<app, startup, managed, setCount, takeCount,
                   probeVars, relayVars, sourceVars>>
    /\ UNCHANGED lastUrl

\* mutant of Kill: child.kill().expect(..), so a failed kill panics in the
\* event handler and takes the application down
Kill_expect(h, r) ==
    /\ hpc[h] = "kill"
    /\ app = "running"
    /\ app' = IF r = "Ok" THEN app ELSE "aborted"
    /\ kills' = kills + 1
    /\ killLog' = Append(killLog, r)
    /\ hchild' = [hchild EXCEPT ![h] = FALSE]
    /\ child' = IF r = "Ok" THEN "exited" ELSE child
    /\ mutex' = 0
    /\ hpc' = [hpc EXCEPT ![h] = "done"]
    /\ UNCHANGED <<startup, managed, slot, setCount, takeCount,
                   probeVars, relayVars, sourceVars>>
    /\ UNCHANGED lastUrl

\* mutant of Kill: the handler waits for the Terminated event of the child
\* before it calls kill and returns
Kill_wait_terminated(h, r) ==
    /\ app = "running"
    /\ hpc[h] = "kill"
    /\ \E j \in 1..Len(delivered) : delivered[j].kind = "Terminated"
    /\ kills' = kills + 1
    /\ killLog' = Append(killLog, r)
    /\ hchild' = [hchild EXCEPT ![h] = FALSE]
    /\ child' = IF r = "Ok" THEN "exited" ELSE child
    /\ mutex' = 0
    /\ hpc' = [hpc EXCEPT ![h] = "done"]
    /\ UNCHANGED <<app, startup, managed, slot, setCount, takeCount,
                   probeVars, relayVars, sourceVars>>
    /\ UNCHANGED lastUrl

\* mutant of Kill: after the kill the handler also aborts the relay task
Kill_abort_relay(h, r) ==
    /\ app = "running"
    /\ hpc[h] = "kill"
    /\ kills' = kills + 1
    /\ killLog' = Append(killLog, r)
    /\ hchild' = [hchild EXCEPT ![h] = FALSE]
    /\ child' = IF r = "Ok" THEN "exited" ELSE child
    /\ mutex' = 0
    /\ hpc' = [hpc EXCEPT ![h] = "done"]
    /\ relay' = IF relay = "running" THEN "ended" ELSE relay
    /\ UNCHANGED <<app, startup, managed, slot, setCount, takeCount,
                   probeVars, rxPos, relayOut, relayErr, sourceVars>>
    /\ UNCHANGED lastUrl

\* match child.kill() { Ok(_) => println!(..), Err(e) => eprintln!(..) }
\* kill takes the handle by value and can fail whether or not the process is
\* still alive; then the guard goes out of scope
Kill(h, r) ==
    /\ app = "running"
    /\ hpc[h] = "kill"
    /\ kills' = kills + 1
    /\ killLog' = Append(killLog, r)
    /\ hchild' = [hchild EXCEPT ![h] = FALSE]
    /\ child' = IF r = "Ok" THEN "exited" ELSE child
    /\ mutex' = 0
    /\ hpc' = [hpc EXCEPT ![h] = "done"]
    /\ UNCHANGED <<app, startup, managed, slot, setCount, takeCount,
                   probeVars, relayVars, sourceVars>>
    /\ UNCHANGED lastUrl

\* ------------------------------------------------- child and event source

\* the backend process exits on its own
ChildExit ==
    /\ app = "running"
    /\ child = "alive"
    /\ child' = "exited"
    /\ UNCHANGED <<app, startup, shutdownVars, probeVars, relayVars, sourceVars>>
    /\ UNCHANGED lastUrl

HasTerminated(evs) == \E j \in 1..Len(evs) : evs[j].kind = "Terminated"

\* the event source (rx of sidecar_command.spawn()) delivers an event; it
\* reports Terminated once, after the process has exited
Deliver(e) ==
    /\ app = "running"
    /\ child # "none"
    /\ ~closed
    /\ Len(delivered) < MaxEvents
    /\ e.kind = "Terminated" => child = "exited" /\ ~HasTerminated(delivered)
    /\ delivered' = Append(delivered, e)
    /\ UNCHANGED <<app, startup, child, shutdownVars, probeVars, relayVars, closed>>
    /\ UNCHANGED lastUrl

\* the sending side of the channel is dropped
CloseSource ==
    /\ app = "running"
    /\ child = "exited"
    /\ ~closed
    /\ closed' = TRUE
    /\ UNCHANGED <<app, startup, child, shutdownVars, probeVars, relayVars, delivered>>
    /\ UNCHANGED lastUrl

\* ------------------------------------------------------------ output relay

\* mutant of RelayRecv: the Error arm breaks out of the loop as well
RelayRecv_break_on_error ==
    /\ app = "running"
    /\ relay = "running"
    /\ rxPos < Len(delivered)
    /\ LET event == delivered[rxPos + 1] IN
         /\ rxPos' = rxPos + 1
         /\ relayOut' =
              CASE event.kind = "Stdout" ->
                     Append(relayOut, <<"[Backend] ", from_utf8_lossy(event.line)>>)
                [] event.kind = "Terminated" ->
                     Append(relayOut, <<"[Backend] Process terminated with status: ", <<>>>>)
                [] OTHER -> relayOut
         /\ relayErr' =
              CASE event.kind = "Stderr" ->
                     Append(relayErr, <<"[Backend Error] ", from_utf8_lossy(event.line)>>)
                [] event.kind = "Error" ->
                     Append(relayErr, <<"[Backend Fatal] ", <<>>>>)
                [] OTHER -> relayErr
         /\ relay' = IF event.kind \in {"Terminated", "Error"} THEN "ended" ELSE "running"
    /\ UNCHANGED <<app, startup, child, shutdownVars, probeVars, sourceVars>>
    /\ UNCHANGED lastUrl

\* mutant of RelayRecv: the Stderr arm prints with println!, to the sink of
\* the Stdout lines
RelayRecv_stderr_to_stdout ==
    /\ app = "running"
    /\ relay = "running"
    /\ rxPos < Len(delivered)
    /\ LET event == delivered[rxPos + 1] IN
         /\ rxPos' = rxPos + 1
         /\ relayOut' =
              CASE event.kind \in {"Stdout", "Stderr"} ->
                     Append(relayOut, <<"[Backend] ", from_utf8_lossy(event.line)>>)
                [] event.kind = "Terminated" ->
                     Append(relayOut, <<"[Backend] Process terminated with status: ", <<>>>>)
                [] OTHER -> relayOut
         /\ relayErr' =
              CASE event.kind = "Error" ->
                     Append(relayErr, <<"[Backend Fatal] ", <<>>>>)
                [] OTHER -> relayErr
         /\ relay' = IF event.kind = "Terminated" THEN "ended" ELSE "running"
    /\ UNCHANGED <<app, startup, child, shutdownVars, probeVars, sourceVars>>
    /\ UNCHANGED lastUrl

\* mutant of RelayRecv: the Error arm takes the handle out of the slot and
\* kills the child
RelayRecv_kill_on_error ==
    /\ app = "running"
    /\ relay = "running"
    /\ rxPos < Len(delivered)
    /\ LET event == delivered[rxPos + 1]
           fatal == event.kind = "Error" /\ slot = "Some" IN
         /\ rxPos' = rxPos + 1
         /\ relayOut' =
              CASE event.kind = "Stdout" ->
                     Append(relayOut, <<"[Backend] ", from_utf8_lossy(event.line)>>)
                [] event.kind = "Terminated" ->
                     Append(relayOut, <<"[Backend] Process terminated with status: ", <<>>>>)
                [] OTHER -> relayOut
         /\ relayErr' =
              CASE event.kind = "Stderr" ->
                     Append(relayErr, <<"[Backend Error] ", from_utf8_lossy(event.line)>>)
                [] event.kind = "Error" ->
                     Append(relayErr, <<"[Backend Fatal] ", <<>>>>)
                [] OTHER -> relayErr
         /\ relay' = IF event.kind = "Terminated" THEN "ended" ELSE "running"
         /\ slot' = IF fatal THEN "None" ELSE slot
         /\ takeCount' = IF fatal THEN takeCount + 1 ELSE takeCount
         /\ kills' = IF fatal THEN kills + 1 ELSE kills
         /\ child' = IF fatal THEN "exited" ELSE child
    /\ UNCHANGED <<app, startup, managed, mutex, hpc, hchild, killLog, setCount,
                   probeVars, sourceVars>>
    /\ UNCHANGED lastUrl

\* while let Some(event) = rx.recv().await { match event { .. } }
RelayRecv ==
    /\ app = "running"
    /\ relay = "running"
    /\ rxPos < Len(delivered)
    /\ LET event == delivered[rxPos + 1] IN
         /\ rxPos' = rxPos + 1
         /\ relayOut' =
              CASE event.kind = "Stdout" ->
                     Append(relayOut, <<"[Backend] ", from_utf8_lossy(event.line)>>)
                [] event.kind = "Terminated" ->
                     Append(relayOut, <<"[Backend] Process terminated with status: ", <<>>>>)
                [] OTHER -> relayOut
         /\ relayErr' =
              CASE event.kind = "Stderr" ->
                     Append(relayErr, <<"[Backend Error] ", from_utf8_lossy(event.line)>>)
                [] event.kind = "Error" ->
                     Append(relayErr, <<"[Backend Fatal] ", <<>>>>)
                [] OTHER -> relayErr
         /\ relay' = IF event.kind = "Terminated" THEN "ended" ELSE "running"
    /\ UNCHANGED <<app, startup, child, shutdownVars, probeVars, sourceVars>>
    /\ UNCHANGED lastUrl

\* rx.recv().await yields None: the channel is closed and drained
RelayClosed ==
    /\ app = "running"
    /\ relay = "running"
    /\ rxPos = Len(delivered)
    /\ closed
    /\ relay' = "ended"
    /\ UNCHANGED <<app, startup, child, shutdownVars, probeVars, sourceVars,
                   rxPos, relayOut, relayErr>>
    /\ UNCHANGED lastUrl

\* ---------------------------------------------------------- get_backend_url

\* mutant of get_backend_url: the URL is given out only once the backend
\* state is managed, an empty string before
get_backend_url_if_managed ==
    /\ app = "running"
    /\ lastUrl' = IF managed THEN "http://localhost:8000" ELSE ""
    /\ UNCHANGED <<app, startup, child, shutdownVars, probeVars, relayVars, sourceVars>>

\* #[tauri::command] async fn get_backend_url() -> String, invoked by the UI
get_backend_url ==
    /\ app = "running"
    /\ lastUrl' = "http://localhost:8000"
    /\ UNCHANGED <<app, startup, child, shutdownVars, probeVars, relayVars, sourceVars>>

\* ----------------------------------------------------------- specification

StartupStep == CreateCommand \/ SpawnChild \/ ManageHandle \/ SpawnRelay
ProbeStep == (\E r \in Outcomes : ProbeGet(r)) \/ ProbeSleep
HandlerStep(h) ==
    \/ Lock(h) \/ Take(h)
    \/ \E r \in {"Ok", "Err"} : Kill(h, r)
RelayStep == RelayRecv \/ RelayClosed
SourceStep == (\E e \in CommandEvent : Deliver(e)) \/ CloseSource

Next ==
    \/ StartupStep
    \/ ProbeStep
    \/ \E h \in Handlers : CloseRequested(h)
    \/ \E h \in Handlers : HandlerStep(h)
    \/ ChildExit
    \/ SourceStep
    \/ RelayStep
    \/ get_backend_url

Spec == Init /\ [][Next]_vars

\* the supervisor without the relay: startup, probe, close handlers, child
NextSupervisor ==
    \/ StartupStep
    \/ ProbeStep
    \/ \E h \in Handlers : CloseRequested(h)
    \/ \E h \in Handlers : HandlerStep(h)
    \/ ChildExit

SpecSupervisor == Init /\ [][NextSupervisor]_vars

\* the async runtime resumes the startup task whenever its pending request or
\* timer has completed
FairSupervisor == SpecSupervisor /\ WF_vars(ProbeStep)

\* the thread that runs a close handler is scheduled until the handler returns
FairShutdown == SpecSupervisor /\ \A h \in Handlers : WF_vars(HandlerStep(h))

\* the supervisor with the UI invoking get_backend_url at any time
NextCommand ==
    \/ NextSupervisor
    \/ get_backend_url

SpecCommand == Init /\ [][NextCommand]_vars

\* the termination report of the child
TerminatedEvents == {e \in CommandEvent : e.kind = "Terminated"}

\* shutdown beside both tasks: the supervisor with the relay and a source
\* that reports the child's termination and closes
NextTasks ==
    \/ NextSupervisor
    \/ \E e \in TerminatedEvents : Deliver(e)
    \/ CloseSource
    \/ RelayStep

SpecTasks == Init /\ [][NextTasks]_vars

\* the async runtime resumes the startup task and the relay task whenever
\* what they await has completed
FairTasks == SpecTasks /\ WF_vars(ProbeStep) /\ WF_vars(RelayStep)

\* the relay and its event source, with the startup steps that launch it
NextRelay ==
    \/ StartupStep
    \/ ChildExit
    \/ SourceStep
    \/ RelayStep

SpecRelay == Init /\ [][NextRelay]_vars

\* one event of every kind
KindEvents == {e \in CommandEvent : e.line \in {<<>>, <<97>>}}

\* the relay beside the close handlers: everything but the probe, with a
\* source that delivers events of every kind
NextShutdownRelay ==
    \/ StartupStep
    \/ \E h \in Handlers : CloseRequested(h)
    \/ \E h \in Handlers : HandlerStep(h)
    \/ ChildExit
    \/ \E e \in KindEvents : Deliver(e)
    \/ CloseSource
    \/ RelayStep

SpecShutdownRelay == Init /\ [][NextShutdownRelay]_vars

\* ------------------------------------------------------------------ claims

\* handlers that hold the handle and have not yet called kill on it
Killers == {h \in Handlers : hpc[h] = "kill"}

\* C1: over any interleaving of close-requested events at most one kill is
\* ever issued: only the handler that took the handle out of the slot kills,
\* and a handler that finds the slot empty issues nothing.
C1_AtMostOneKill ==
    /\ kills + Cardinality(Killers) <= 1
    /\ kills + Cardinality(Killers) = takeCount
    /\ \A h \in Handlers : hpc[h] = "kill" <=> hchild[h]

\* one handler has killed and is done while another holds the lock on the
\* emptied slot
C1_Witness ==
    \E h1, h2 \in Handlers :
        /\ h1 # h2
        /\ hpc[h1] = "done"
        /\ hpc[h2] = "take"
        /\ slot = "None"
        /\ kills = 1

\* C2: once the child has been spawned and its handle stored, and a
\* close-requested event has been handled with no handler still running, the
\* child has been sent exactly one termination signal.
C2_KilledExactlyOnce ==
    ( /\ child # "none"
      /\ managed
      /\ \E h \in Handlers : hpc[h] = "done"
      /\ \A h \in Handlers : hpc[h] \in {"idle", "done"} )
    => kills = 1

\* C3: a close-requested event handled while no handle has been stored ends
\* in that one step, without taking the lock, issuing a kill, changing the
\* slot or stopping the application.
C3_CloseBeforeStoreIsNoOp ==
    [][\A h \in Handlers :
         (hpc[h] = "idle" /\ hpc'[h] # "idle" /\ ~managed) =>
             /\ hpc'[h] = "done"
             /\ UNCHANGED <<app, managed, slot, mutex, hchild, kills, killLog,
                            setCount, takeCount>>]_vars

\* a close event was handled to its end after the spawn and before the store
C3_Witness ==
    /\ startup = "spawned"
    /\ \E h \in Handlers : hpc[h] = "done"
    /\ kills = 0

\* C4: when attempts 1..k-1 fail and attempt k gets a 2xx response, the probe
\* has returned after exactly k requests and k-1 sleeps of 500 ms, and it
\* sends no request and sleeps no more afterwards.
C4_ReturnsAtFirstSuccess ==
    /\ [](probeOk =>
            /\ startup = "done"
            /\ attempts \in 1..MaxAttempts
            /\ attempts = failures + 1
            /\ sleeps = failures
            /\ slept = failures * SleepMs)
    /\ [][probeOk => UNCHANGED <<attempts, sleeps, slept, failures>>]_vars

\* the probe succeeded on its last attempt, k = 30
C4_Witness ==
    /\ probeOk
    /\ attempts = MaxAttempts
    /\ sleeps = MaxAttempts - 1

ProbeRunning == startup \in {"probe_get", "probe_sleep"}

\* C5: a probe that never gets a 2xx response returns, without stopping the
\* application, after exactly 30 attempts and 30 sleeps of 500 ms (15 s), with
\* the timeout warning printed once; and a running probe always returns.
C5_ExhaustionReturns ==
    /\ []((startup = "done" /\ ~probeOk) =>
            /\ attempts = MaxAttempts
            /\ failures = MaxAttempts
            /\ sleeps = MaxAttempts
            /\ slept = 15000
            /\ warnings = 1
            /\ app = "running")
    /\ [](warnings <= 1 /\ (warnings = 1 => ~probeOk /\ startup = "done"))
    /\ (ProbeRunning ~> startup = "done")

\* the probe has returned after 30 failed attempts
C5_Witness ==
    /\ startup = "done"
    /\ ~probeOk
    /\ failures = MaxAttempts
    /\ warnings = 1

\* C6: "Backend is ready!" is printed only when some probe attempt received
\* a 2xx response.
C6_ReadyOnlyAfterSuccess == readyLogs > 0 => probeOk

\* C7: when the sidecar command cannot be created or spawned, startup is
\* aborted: no handle is stored, relay and probe never start, ready is never
\* printed and the application does not go on running.
C7_SpawnFailureAborts ==
    startup = "panicked" =>
        /\ ~managed
        /\ relay = "idle"
        /\ attempts = 0
        /\ readyLogs = 0
        /\ app = "aborted"

\* the events the relay has received so far
Received == SubSeq(delivered, 1, rxPos)

\* C8: the relay ends only by receiving a Terminated event or by finding the
\* source closed and drained; it is ended as soon as it has received a
\* Terminated event, so it receives nothing queued after the first one; and
\* it is still running after any Stdout, Stderr, Error or unknown event.
C8_RelayEndsOnTerminatedOrClose ==
    /\ relay = "idle" => rxPos = 0
    /\ relay = "ended" =>
          \/ rxPos >= 1 /\ delivered[rxPos].kind = "Terminated"
          \/ closed /\ rxPos = Len(delivered)
    /\ (relay = "running" /\ rxPos >= 1) => delivered[rxPos].kind # "Terminated"
    /\ \A j \in 1..(rxPos - 1) : delivered[j].kind # "Terminated"

\* the relay went on after an Error event, ended on Terminated and left an
\* event queued after it unreceived
C8_Witness ==
    /\ relay = "ended"
    /\ rxPos < Len(delivered)
    /\ delivered[rxPos].kind = "Terminated"
    /\ \E j \in 1..(rxPos - 1) : delivered[j].kind = "Error"

\* the lines of one stream among the events evs, decoded as the relay prints
\* them, in delivery order
StreamLines(evs, k) ==
    LET sel == SelectSeq(evs, LAMBDA e : e.kind = k)
    IN  [j \in 1..Len(sel) |-> from_utf8_lossy(sel[j].line)]

\* the stream lines found on a sink, without the relay's own notices
SinkLines(sink, prefix) ==
    LET sel == SelectSeq(sink, LAMBDA x : x[1] = prefix)
    IN  [j \in 1..Len(sel) |-> sel[j][2]]

\* index of the first Terminated event delivered, or the number of events
\* delivered when there is none
FirstTerminated ==
    IF HasTerminated(delivered)
    THEN CHOOSE j \in 1..Len(delivered) :
            /\ delivered[j].kind = "Terminated"
            /\ \A m \in 1..(j - 1) : delivered[m].kind # "Terminated"
    ELSE Len(delivered)

LiveHandles ==
    (IF startup = "spawned" THEN 1 ELSE 0)
    + (IF slot = "Some" THEN 1 ELSE 0)
    + Cardinality({h \in Handlers : hchild[h]})

\* C10: at most one live handle exists; the slot is absent until the store
\* that follows a successful spawn, is set once and then holds the handle, is
\* taken at most once, and is absent from then on.
C10_SlotSetOnceTakenOnce ==
    /\ LiveHandles <= 1
    /\ setCount <= 1
    /\ takeCount <= 1
    /\ managed <=> setCount = 1
    /\ ~managed => slot = "None" /\ takeCount = 0
    /\ (managed /\ takeCount = 0) => slot = "Some"
    /\ takeCount = 1 => slot = "None"
    /\ startup \in {"start", "command", "spawned", "panicked"} => ~managed
    /\ startup \in {"stored", "probe_get", "probe_sleep", "done"} => managed

\* the handle was stored, taken and used, and a later close found it absent
C10_Witness ==
    /\ setCount = 1
    /\ takeCount = 1
    /\ slot = "None"
    /\ kills = 1
    /\ \A h \in Handlers : hpc[h] = "done"


\* the relay task or the probe has been started
TasksStarted == relay # "idle" \/ ProbeRunning \/ attempts > 0

\* C11 as stated: in every state in which the relay or the probe is running
\* the slot holds the handle.
C11_TasksNeverSeeAbsentHandle ==
    (relay = "running" \/ ProbeRunning) => slot = "Some"

\* C11 as amended: the handle is stored before the relay and the probe are
\* started, so whenever either has been started the slot has been set, once;
\* it is absent then only because a close handler has taken the handle.
C11_StoredBeforeTasksStart ==
    /\ TasksStarted => (managed /\ setCount = 1)
    /\ (TasksStarted /\ slot = "None") => takeCount = 1
    /\ (TasksStarted /\ takeCount = 0) => slot = "Some"

\* the probe is in flight and the relay running with the handle in the slot
C11_Witness ==
    /\ relay = "running"
    /\ startup = "probe_sleep"
    /\ attempts = 2
    /\ slot = "Some"


\* C12: a failed kill is logged and nothing else: the application keeps
\* running, the kill is not repeated, and the slot stays absent, so a later
\* close-requested event issues no further kill.
C12_KillFailureOnlyLogged ==
    (Len(killLog) >= 1 /\ killLog[1] = "Err") =>
        /\ app = "running"
        /\ killLog = <<"Err">>
        /\ kills = 1
        /\ takeCount = 1
        /\ slot = "None"
        /\ Killers = {}
        /\ \A h \in Handlers : ~hchild[h]

\* the kill of an already exited child failed, and every later close request
\* has been handled without another kill
C12_Witness ==
    /\ killLog = <<"Err">>
    /\ kills = 1
    /\ child = "exited"
    /\ \A h \in Handlers : hpc[h] = "done"


\* the attempts whose failure prints a progress line
ProgressAttempts == {1, 6, 11, 16, 21, 26}

\* the progress lines due after f failed attempts, in order
ProgressAfter(f) ==
    SelectSeq([n \in 1..f |-> n], LAMBDA n : n \in ProgressAttempts)

\* C13: a progress line is printed for failed attempt n exactly when n is 1,
\* 6, 11, 16, 21 or 26, never for the successful attempt; failures on
\* attempts 1-4 and success on attempt 5 print the one line of attempt 1 and
\* end the probe at attempt 5.
C13_ProgressEveryFifthAttempt ==
    /\ progress = ProgressAfter(failures)
    /\ (probeOk /\ failures = 4) =>
          (progress = <<1>> /\ attempts = 5 /\ startup = "done")
    /\ (probeOk /\ failures = 5) => progress = <<1>>
    /\ (startup = "done" /\ ~probeOk) => progress = <<1, 6, 11, 16, 21, 26>>

\* attempts 1-4 failed and attempt 5 succeeded
C13_Witness ==
    /\ probeOk
    /\ failures = 4
    /\ attempts = 5
    /\ progress = <<1>>


\* how far a close handler has got
HandlerRank(pc) ==
    CASE pc = "idle" -> 0
      [] pc = "lock" -> 1
      [] pc = "take" -> 2
      [] pc = "kill" -> 3
      [] pc = "done" -> 4

\* C14: a close handler only moves forward through its at most four steps,
\* one that holds the lock can always take its next step whatever the probe,
\* the relay and the child are doing, and every handler that has started
\* returns, without a Terminated event ever being delivered.
C14_HandlerAlwaysReturns ==
    /\ [][\A h \in Handlers :
            hpc'[h] # hpc[h] => HandlerRank(hpc'[h]) > HandlerRank(hpc[h])]_vars
    /\ [](\A h \in Handlers : hpc[h] \in {"take", "kill"} => ENABLED HandlerStep(h))
    /\ \A h \in Handlers : (hpc[h] \in {"lock", "take", "kill"}) ~> (hpc[h] = "done")

\* a handler has issued its kill and returned while the probe is in flight,
\* the relay running, the child still alive and no Terminated event delivered
C14_Witness ==
    /\ \E h \in Handlers : hpc[h] = "done"
    /\ kills = 1
    /\ child = "alive"
    /\ ProbeRunning
    /\ relay = "running"
    /\ ~HasTerminated(delivered)


\* C15: the relay only observes: receiving an event of any kind, or finding
\* the source closed, changes nothing but the relay's own position and logs;
\* an Error event adds one fatal line to the error log and leaves the relay
\* running and the child, the slot and the kill count as they were.
C15_RelayOnlyObserves ==
    [][(rxPos' # rxPos \/ (relay' = "ended" /\ relay = "running")) =>
          /\ UNCHANGED <<app, startup, child, shutdownVars, probeVars, sourceVars,
                         lastUrl>>
          /\ (rxPos' # rxPos /\ delivered[rxPos + 1].kind = "Error") =>
                /\ relay' = "running"
                /\ relayErr' = Append(relayErr, <<"[Backend Fatal] ", <<>>>>)
                /\ relayOut' = relayOut]_vars

\* the relay logged an Error event and went on to receive the next event,
\* with the child alive and its handle still in the slot
C15_Witness ==
    /\ rxPos = 2
    /\ delivered[1].kind = "Error"
    /\ relay = "running"
    /\ relayErr[1] = <<"[Backend Fatal] ", <<>>>>
    /\ child = "alive"
    /\ slot = "Some"
    /\ kills = 0


\* C16: get_backend_url can be invoked in every state of the running
\* application, whatever the startup task, the probe, the slot and the close
\* handlers are at; it returns http://localhost:8000 and changes nothing else.
C16_BackendUrlIsFixed ==
    /\ [](app = "running" => ENABLED get_backend_url)
    /\ [](lastUrl \in {"none", "http://localhost:8000"})
    /\ [][lastUrl' # lastUrl =>
            /\ lastUrl' = "http://localhost:8000"
            /\ UNCHANGED <<app, startup, child, shutdownVars, probeVars, relayVars,
                           sourceVars>>]_vars

\* the command was answered before the sidecar was even spawned
C16_Witness ==
    /\ lastUrl = "http://localhost:8000"
    /\ startup = "start"
    /\ ~managed


\* the relay has received the Terminated event or found the source closed
RelayEndCause ==
    \/ rxPos >= 1 /\ delivered[rxPos].kind = "Terminated"
    \/ closed /\ rxPos = Len(delivered)

C18_ReadyOnlyFromRunning ==
    [][readyLogs' # readyLogs =>
          /\ managed
          /\ takeCount = 0
          /\ readyLogs = 0
          /\ readyLogs' = 1]_vars

====
